---- MODULE Spec2Model ----
(***************************************************************************)
(* A model of the ladder bot of src/index.ts: the leaderboard diff engine  *)
(* (getDiffs, trackChanges), the reading of the ladder file                *)
(* (getLeaderboard), the persisted top-log (updateTopLog) and the          *)
(* open/close/deadline scheduler (setDeadline, openLadder, closeLadder and *)
(* their watchers).  Four specifications share the module:                 *)
(*   SpecDiff  the diff engine applied to bounded pairs of snapshots,      *)
(*   SpecBoard getLeaderboard and the poll tick on bounded ladder files,   *)
(*   SpecTop   sequences of updateTopLog calls on the persisted log,       *)
(*   Spec      the scheduler, driven by a discrete clock.                  *)
(***************************************************************************)
EXTENDS Integers, Sequences, FiniteSets, TLC

VARIABLES
    \* ---- diff engine (SpecDiff)
    last,       \* getDiffs' first argument: the older snapshot
    current,    \* getDiffs' second argument: the newer snapshot
    cutoff,     \* config.cutoff (0: not configured)
    diffs,      \* the Map returned by the latest getDiffs call
    dnum,       \* the window the latest getDiffs call was given (0: none)
    hasCurrent, \* whether this.leaderboard.current is defined when trackChanges runs
    changed,    \* this.changed (undefined is falsy: FALSE)
    dpc,        \* "input", "diffed" (after getDiffs), "tracked" (after trackChanges)
    \* ---- ladder file (SpecBoard)
    ladder,     \* the ladder file as the latest getLeaderboard call found it:
                \* [kind |-> "none"] before any call, [kind |-> "unreadable"] or
                \* [kind |-> "rows", rows |-> its lines split at tabs]
    lookup,     \* this.leaderboard.lookup
    boardCurrent, \* this.leaderboard.current: [defined, rows]
    boardLast,  \* this.leaderboard.last: [defined, rows]
    returned,   \* what the latest getLeaderboard call returned
    notices,    \* what the latest handler reported to the room
    call,       \* history: the latest handler to read the ladder: "none",
                \* "display", "poll" or "watch"
    tracked,    \* history: whether the latest poll tick called trackChanges
    pending,    \* the poll tick suspended at its await, if any: [queued, rows]
                \* and, as history, the prefix its snapshot was built with
    currentBuilt, \* history: the prefix this.leaderboard.current was built with
    \* ---- top-log (SpecTop)
    topFile,    \* tops.json: [kind |-> "absent"], [kind |-> "corrupt"] (present but
                \* not JSON) or [kind |-> "json", prefix, currenttop, logs]
    prefix,     \* this.prefix
    ladderopen, \* this.ladderopen
    calls,      \* number of updateTopLog calls made; also the minute of the call
    topCall,    \* history: the arguments and outcome of the latest updateTopLog call
    openUpdates,\* history: updates of the reigning entry made while the ladder was
                \* open, since that entry was written
    \* ---- scheduler (Spec)
    now,        \* the clock, in ticks of 500 ms
    configOpen, \* config.open, as a second of the day
    configClose,\* config.close, as a second of the day
    deadline,   \* this.deadline (Undefined when not set)
    looping,    \* this.looping
    started,    \* whether this.started holds the polling interval
    final,      \* this.final: the id of the deadline timer last armed (0: none)
    finalTimers,\* the armed deadline timers: records [id, due]
    openW,      \* the armed open-watcher timers: their due times
    closeW,     \* the armed close-watcher timers: their due times
    spin,       \* the re-check loop that holds the nextTick queue:
                \* "none", "final", "open" or "close"
    reports,    \* what the latest callback reported to the room
    setCalls,   \* history: setDeadline calls with a valid timestamp so far
    lastDeadline, \* history: the timestamp of the latest such call
    firedId,    \* history: the id of the deadline timer that fired last
    captures,   \* history: final captures since the latest such call
    boots,      \* history: times setDeadline started the open/close loop
    invalidCalls \* history: setDeadline calls with an unparseable timestamp

diffVars == <<last, current, cutoff, diffs, dnum, hasCurrent, changed, dpc>>
boardVars == <<ladder, lookup, boardCurrent, boardLast, returned, notices, call, tracked,
               pending, currentBuilt>>
topVars == <<topFile, prefix, calls, topCall, openUpdates>>

schedVars == <<now, configOpen, configClose, deadline, looping, started, final,
               finalTimers, openW, closeW, spin, reports, setCalls, lastDeadline,
               firedId, captures, boots, invalidCalls>>

vars == <<diffVars, boardVars, topVars, ladderopen, schedVars>>

----------------------------------------------------------------------------
(* Bounds of the model. *)

MaxLen == 3        \* longest snapshot
MaxCutoff == 2     \* largest config.cutoff tried
MaxCalls == 3      \* updateTopLog calls in one behaviour
MaxWin == 1        \* largest win count of a row
MaxLose == 1       \* largest lose count of a row
DaySeconds == 4    \* seconds in the (shortened) day
MaxTime == 20      \* the clock stops here
MaxDeadline == 8   \* latest timestamp given to setDeadline
MaxLate == 3       \* ticks a timer may fire after it is due
MaxSetDeadline == 2 \* setDeadline calls with a valid timestamp in one behaviour
MaxInvalidCalls == 1 \* setDeadline calls with an unparseable one

(* The clock ticks every 500 ms: the margin by which every timer is set    *)
(* early is one tick, and a second is two.                                 *)
Margin == 1
TicksPerSecond == 2
DayTicks == DaySeconds * TicksPerSecond

(* An unset this.deadline. *)
Undefined == -1

(* Number.POSITIVE_INFINITY as used for a missing rank: above every rank. *)
Infinity == 1000000

----------------------------------------------------------------------------
(* Names and ids.  A name is a sequence of characters, so that toID has    *)
(* something to lower-case and to strip.                                   *)

AlnumChars == {"a", "b", "c", "d"}

toLowerCase(c) ==
    CASE c = "A" -> "a"
      [] c = "B" -> "b"
      [] c = "C" -> "c"
      [] c = "D" -> "d"
      [] OTHER -> c

(* toID: lower-case, then drop every character outside [a-z0-9]. *)
toID(text) ==
    LET lowered == [i \in 1..Len(text) |-> toLowerCase(text[i])]
    IN  SelectSeq(lowered, LAMBDA c : c \in AlnumChars)

(* String.prototype.startsWith on ids. *)
startsWith(id, pre) ==
    /\ Len(pre) <= Len(id)
    /\ SubSeq(id, 1, Len(pre)) = pre

----------------------------------------------------------------------------
(* The diff engine.                                                        *)

Min(a, b) == IF a < b THEN a ELSE b

EmptyMap == [x \in {} |-> 0]

MapSet(m, k, v) == [x \in DOMAIN m \cup {k} |-> IF x = k THEN v ELSE m[x]]

(* Array.prototype.slice(0, num) *)
slice(s, num) == SubSeq(s, 1, Min(num, Len(s)))

(* findIndex(e => toID(e.name) === id) + 1: the first match, 0 when none *)
FindRank(board, id) ==
    LET hits == {i \in 1..Len(board) : toID(board[i].name) = id}
    IN  IF hits = {} THEN 0 ELSE CHOOSE i \in hits : \A j \in hits : i <= j

RECURSIVE LastPass(_, _, _, _)
LastPass(acc, lastN, cur, i) ==
    IF i > Len(lastN) THEN acc
    ELSE LET id      == toID(lastN[i].name)
             oldrank == i
             found   == FindRank(cur, id)
             newrank == IF found = 0 THEN Infinity ELSE found
             elo     == IF found = 0 THEN 0 ELSE cur[found].elo
             rec     == [name |-> lastN[i].name, elo |-> elo,
                         oldrank |-> oldrank, newrank |-> newrank]
         IN  LastPass(IF oldrank # newrank THEN MapSet(acc, id, rec) ELSE acc,
                      lastN, cur, i + 1)

RECURSIVE CurrentPass(_, _, _, _)
CurrentPass(acc, currentN, lst, i) ==
    IF i > Len(currentN) THEN acc
    ELSE LET id      == toID(currentN[i].name)
             newrank == i
             found   == FindRank(lst, id)
             oldrank == IF found = 0 THEN Infinity ELSE found
             rec     == [name |-> currentN[i].name, elo |-> currentN[i].elo,
                         oldrank |-> oldrank, newrank |-> newrank]
         IN  CurrentPass(IF oldrank # newrank THEN MapSet(acc, id, rec) ELSE acc,
                         currentN, lst, i + 1)

(* getDiffs without its second loop: entries new to `current` are missed. *)
getDiffsLastOnly(lst, cur, num) ==
    LET lastN == IF num # 0 THEN slice(lst, num) ELSE lst
    IN  LastPass(EmptyMap, lastN, cur, 1)

(* getDiffs(last, current, num); num = 0 stands for an absent window.  The  *)
(* first pass looks each windowed entry of `last` up in the WHOLE of        *)
(* `current`, the second each windowed entry of `current` in the whole of   *)
(* `last`.                                                                  *)
getDiffs(lst, cur, num) ==
    LET lastN    == IF num # 0 THEN slice(lst, num) ELSE lst
        currentN == IF num # 0 THEN slice(cur, num) ELSE cur
        first    == LastPass(EmptyMap, lastN, cur, 1)
    IN  CurrentPass(first, currentN, lst, 1)

(* n * FACTOR as slice() sees it: 1.5 n truncated to an integer. *)
CutoffWindow(n) == (3 * n) \div 2

CrossesCutoff(rec, n) ==
    \/ rec.oldrank > n /\ rec.newrank <= n
    \/ rec.oldrank <= n /\ rec.newrank > n

(* The loop of trackChanges over the records: does it set this.changed? *)
RaisesChanged(ds, n) == \E id \in DOMAIN ds : ~CrossesCutoff(ds[id], n)

(* trackChanges(leaderboard): the value of this.changed after the call,    *)
(* with this.leaderboard.current = cur when `defined`.                     *)
trackChanges(defined, cur, leaderboard, n, chg) ==
    IF ~defined \/ n = 0 THEN chg
    ELSE LET ds == getDiffs(cur, leaderboard, CutoffWindow(n))
         IN  IF DOMAIN ds = {} THEN chg
             ELSE IF RaisesChanged(ds, n) THEN TRUE ELSE chg

----------------------------------------------------------------------------
(* SpecDiff: the diff engine on bounded inputs.                            *)

DiffNames == {<<"A">>, <<"B">>, <<"C">>, <<"D">>, <<"a", "_">>}

(* The rating of a row, fixed per name and never 0, so that the 0 written  *)
(* for a missing entry stands out.                                         *)
EloOf(name) == 1500 + Len(name)

Entry(name) == [name |-> name, elo |-> EloOf(name)]

DistinctIds(board) ==
    \A i, j \in 1..Len(board) :
        toID(board[i].name) = toID(board[j].name) => i = j

(* Snapshots as getLeaderboard builds them from a ladder file: one row per *)
(* user id.                                                                *)
Snapshots ==
    {s \in UNION {[1..n -> {Entry(nm) : nm \in DiffNames}] : n \in 0..MaxLen} :
        DistinctIds(s)}

DiffInputs ==
    /\ last \in Snapshots
    /\ current \in Snapshots
    /\ cutoff \in 0..MaxCutoff
    /\ hasCurrent \in BOOLEAN

DiffIdle ==
    /\ last = <<>>
    /\ current = <<>>
    /\ cutoff = 0
    /\ hasCurrent = FALSE
    /\ diffs = EmptyMap
    /\ dnum = 0
    /\ changed = FALSE
    /\ dpc = "input"

(* this.leaderboard as the constructor leaves it (line 116). *)
NoBoard == [defined |-> FALSE, rows |-> <<>>]

NoPending == [queued |-> FALSE, rows |-> <<>>, builtWith |-> <<>>]

BoardIdle ==
    /\ ladder = [kind |-> "none"]
    /\ lookup = EmptyMap
    /\ boardCurrent = NoBoard
    /\ boardLast = NoBoard
    /\ returned = <<>>
    /\ notices = <<>>
    /\ call = "none"
    /\ tracked = FALSE
    /\ pending = NoPending
    /\ currentBuilt = <<>>

(* A call getDiffs(last, current, num) *)
GetDiffs(num) ==
    /\ dpc = "input"
    /\ diffs' = getDiffs(last, current, num)
    /\ dnum' = num
    /\ dpc' = "diffed"
    /\ UNCHANGED <<last, current, cutoff, hasCurrent, changed>>

(* A call trackChanges(current) with this.leaderboard.current = last; the  *)
(* poll tick passes no empty leaderboard.  diffs keeps what the call       *)
(* computed, when it got that far.                                         *)
TrackChanges ==
    /\ dpc = "input"
    /\ Len(current) > 0
    /\ changed' = trackChanges(hasCurrent, last, current, cutoff, changed)
    /\ diffs' = IF ~hasCurrent \/ cutoff = 0 THEN diffs
                ELSE getDiffs(last, current, CutoffWindow(cutoff))
    /\ dnum' = IF ~hasCurrent \/ cutoff = 0 THEN dnum ELSE CutoffWindow(cutoff)
    /\ dpc' = "tracked"
    /\ UNCHANGED <<last, current, cutoff, hasCurrent>>

----------------------------------------------------------------------------
(* The top-log.                                                            *)

Stat(win, lose) == [win |-> win, lose |-> lose]

newTopLog(pre) ==
    [kind |-> "json", prefix |-> pre, currenttop |-> <<>>, logs |-> EmptyMap]

(* Line 677: JSON.parse of a tops.json that exists but is not JSON throws   *)
(* a SyntaxError, which neither getTopLog nor updateTopLog catches.        *)
getTopLogThrows(file) == file.kind = "corrupt"

(* getTopLog, when it returns: the parsed file when tops.json exists, else *)
(* a new log.                                                              *)
getTopLog(file, pre) == IF file.kind = "absent" THEN newTopLog(pre) ELSE file

(* formatDateTime renders the date to the minute; a date is a minute here. *)
formatDateTime(date) == date

(* The entry written when the top changes hands (lines 662-669). *)
freshEntry(username, win, lose, date) ==
    [username |-> username, currentstat |-> Stat(win, lose),
     originalstat |-> Stat(win, lose), continuouswin |-> 0,
     starttime |-> formatDateTime(date), ticks |-> 1]

(* The reigning entry with ticks counted whatever the ladder's phase. *)
sameTopEntryAlwaysTicks(e, open, win, lose) ==
    [e EXCEPT !.ticks = @ + 1,
              !.continuouswin = IF lose > e.currentstat.lose THEN 0
                                ELSE @ + (win - e.currentstat.win),
              !.currentstat = Stat(win, lose)]

(* The reigning entry with the streak also reset on an unchanged lose. *)
sameTopEntryResetOnEqual(e, open, win, lose) ==
    [e EXCEPT !.ticks = IF open THEN @ + 1 ELSE @,
              !.continuouswin = IF lose >= e.currentstat.lose THEN 0
                                ELSE @ + (win - e.currentstat.win),
              !.currentstat = Stat(win, lose)]

(* The reigning entry after an update (lines 651-659). *)
sameTopEntry(e, open, win, lose) ==
    [e EXCEPT !.ticks = IF open THEN @ + 1 ELSE @,
              !.continuouswin = IF lose > e.currentstat.lose THEN 0
                                ELSE @ + (win - e.currentstat.win),
              !.currentstat = Stat(win, lose)]

(* The log updateTopLog works on: the stored one, or a new one when the    *)
(* stored prefix is not this.prefix (lines 647-648).                       *)
workingLog(file, pre) ==
    LET stored == getTopLog(file, pre)
    IN  IF stored.prefix # pre THEN newTopLog(pre) ELSE stored

(* A change of hands that records the new top but writes no entry for it. *)
switchTopKeepsLogs(tops, userid, entry) == [tops EXCEPT !.currenttop = userid]

(* The top changes hands (lines 661-670): currenttop is set and the entry  *)
(* of the new top is assigned, whether or not the id had one.              *)
switchTop(tops, userid, entry) ==
    [tops EXCEPT !.currenttop = userid, !.logs = MapSet(@, userid, entry)]

(* updateTopLog(username, win, lose, date): what tops.json holds after the *)
(* call, and whether the call threw.  tops.logs[userid] is undefined when  *)
(* userid equals currenttop without an entry: reading a field of it is a   *)
(* TypeError, raised before saveTopLog.                                    *)
updateTopLog(file, pre, open, username, win, lose, date) ==
    IF getTopLogThrows(file) THEN [threw |-> TRUE, file |-> file]
    ELSE
    LET tops   == workingLog(file, pre)
        userid == toID(username)
    IN  IF userid = tops.currenttop
        THEN IF userid \in DOMAIN tops.logs
             THEN [threw |-> FALSE,
                   file |-> [tops EXCEPT !.logs =
                       MapSet(@, userid, sameTopEntry(@[userid], open, win, lose))]]
             ELSE [threw |-> TRUE, file |-> file]
        ELSE [threw |-> FALSE,
              file |-> switchTop(tops, userid, freshEntry(username, win, lose, date))]

----------------------------------------------------------------------------
(* SpecTop: updateTopLog as watchTop calls it, between prefix commands,    *)
(* open/close transitions and restarts of the bot.                         *)

TopNames == {<<"a", "_">>, <<"B">>, <<"_">>}
ConfigPrefixes == {<<>>, <<"A">>, <<"B">>}
PrefixArguments == {<<"a">>, <<"B", "_">>}

NoCall == [username |-> <<>>, win |-> 0, lose |-> 0, threw |-> FALSE]

SchedIdle ==
    /\ now = 0
    /\ configOpen = 0
    /\ configClose = 0
    /\ deadline = Undefined
    /\ looping = FALSE
    /\ started = FALSE
    /\ final = 0
    /\ finalTimers = {}
    /\ openW = <<>>
    /\ closeW = <<>>
    /\ spin = "none"
    /\ reports = <<>>
    /\ setCalls = 0
    /\ lastDeadline = Undefined
    /\ firedId = 0
    /\ captures = 0
    /\ boots = 0
    /\ invalidCalls = 0

TopIdle ==
    /\ topFile = [kind |-> "absent"]
    /\ prefix = <<>>
    /\ calls = 0
    /\ topCall = NoCall
    /\ openUpdates = 0

(* The bot starts with this.prefix from the configuration and tops.json   *)
(* either absent or left unparseable by whatever wrote it last.            *)
InitTop ==
    /\ DiffIdle
    /\ BoardIdle
    /\ SchedIdle
    /\ topFile \in {[kind |-> "absent"], [kind |-> "corrupt"]}
    /\ prefix \in {toID(c) : c \in ConfigPrefixes}
    /\ ladderopen = TRUE
    /\ calls = 0
    /\ topCall = NoCall
    /\ openUpdates = 0

(* watchTop's call updateTopLog(leaderboard[0].name, .win, .lose, now):    *)
(* leaderboard[0] is a row whose id starts with this.prefix.               *)
TopLogCall(username, win, lose) ==
    /\ calls < MaxCalls
    /\ startsWith(toID(username), prefix)
    /\ LET r    == updateTopLog(topFile, prefix, ladderopen, username, win, lose, calls)
           same == toID(username) = workingLog(topFile, prefix).currenttop
       IN  /\ topFile' = r.file
           /\ topCall' = [username |-> username, win |-> win, lose |-> lose,
                          threw |-> r.threw]
           /\ openUpdates' = IF r.threw THEN openUpdates
                             ELSE IF ~same THEN 0
                             ELSE IF ladderopen THEN openUpdates + 1
                             ELSE openUpdates
    /\ calls' = calls + 1
    /\ prefix' = prefix

UpdateTopLog(username, win, lose) ==
    /\ TopLogCall(username, win, lose)
    /\ UNCHANGED <<ladderopen, diffVars, schedVars, boardVars>>

(* The prefix command (lines 410-416), as far as the top-log sees it. *)
SetPrefix(argument) ==
    /\ toID(argument) # <<>>
    /\ toID(argument) # prefix
    /\ prefix' = toID(argument)
    /\ UNCHANGED <<topFile, calls, topCall, openUpdates, ladderopen, diffVars, schedVars, boardVars>>

(* openLadder and closeLadder, as far as the top-log sees them. *)
TopLadderOpens ==
    /\ ~ladderopen
    /\ ladderopen' = TRUE
    /\ UNCHANGED <<topVars, diffVars, schedVars, boardVars>>

TopLadderCloses ==
    /\ ladderopen
    /\ ladderopen' = FALSE
    /\ UNCHANGED <<topVars, diffVars, schedVars, boardVars>>

(* The bot is started again: the constructor runs, tops.json is kept. *)
Restart(configPrefix) ==
    /\ prefix' = toID(configPrefix)
    /\ ladderopen' = TRUE
    /\ UNCHANGED <<topFile, calls, topCall, openUpdates, diffVars, schedVars, boardVars>>

NextTop ==
    \/ \E u \in TopNames, w \in 0..MaxWin, l \in 0..MaxLose : UpdateTopLog(u, w, l)
    \/ \E a \in PrefixArguments : SetPrefix(a)
    \/ TopLadderOpens
    \/ TopLadderCloses
    \/ \E c \in ConfigPrefixes : Restart(c)

SpecTop == InitTop /\ [][NextTop]_vars

----------------------------------------------------------------------------
(* The scheduler.                                                          *)

(* getNextOpenTime / getNextCloseTime at instant t for a configured second *)
(* of the day: today at that second, with the milliseconds of t itself     *)
(* (setSeconds(0) leaves them), and tomorrow when t is past that.          *)
nextBoundary(t, second) ==
    LET today == (t - (t % DayTicks)) + second * TicksPerSecond + (t % TicksPerSecond)
    IN  IF t > today THEN today + DayTicks ELSE today

getNextOpenTime(t) == nextBoundary(t, configOpen)
getNextCloseTime(t) == nextBoundary(t, configClose)

(* Line 169: Date.now() >= +this.deadline; an unset deadline is NaN there  *)
(* and the comparison is false.                                            *)
deadlinePassed(t, dl) == dl # Undefined /\ t >= dl

(* A deadline check that lets the capture run as soon as the timer fires. *)
captureWaitsNever(t, dl) == FALSE

(* Line 157: now < this.deadline, false as well when the deadline is unset *)
captureWaits(t, dl) == dl # Undefined /\ t < dl

(* A clearTimeout that cancels nothing. *)
clearTimeoutKeeps(timers, handle) == timers

(* clearTimeout(this.final) *)
clearTimeout(timers, handle) == {tm \in timers : tm.id # handle}

(* A setDeadline that starts a loop on every call. *)
bootstrapsAlways(lp) == TRUE

(* Line 145: setDeadline starts the loop only when none is running. *)
bootstraps(lp) == ~lp

(* The arming of a watcher: setTimeout(..., target - Date.now() - 500). *)
armedFor(target) == target - Margin

(* openLadder() at instant t with this.deadline = dl: the close-watcher    *)
(* timers afterwards, and whether it cleared this.looping.                 *)
openLadderArms(t, dl) ==
    IF deadlinePassed(t, dl) THEN closeW
    ELSE Append(closeW, armedFor(getNextCloseTime(t)))

(* closeLadder(decay): the open-watcher timers and the reports afterwards. *)
closeLadderArms(t) == Append(openW, armedFor(getNextOpenTime(t)))

(* A closeLadder that sends the decay command whatever its argument. *)
closeLadderReportsAlways(decay) == <<"close", "decay">>

closeLadderReports(decay) == IF decay THEN <<"close", "decay">> ELSE <<"close">>

(* stop(): the polling interval is cleared, and that is reported. *)
stopReports == IF started THEN <<"stopped">> ELSE <<>>

(* The nextTick queue is drained before any timer or I/O callback runs: a  *)
(* re-check loop, which re-queues itself with process.nextTick, keeps      *)
(* every other callback waiting until its condition holds.                 *)
EventLoopFree == spin = "none"

(* Whether the running re-check loop finds its condition met. *)
SpinReady ==
    \/ spin = "final" /\ ~captureWaits(now, deadline)
    \/ spin = "open" /\ ~(now < getNextOpenTime(now))
    \/ spin = "close" /\ ~(now < getNextCloseTime(now))

Removed(seq, i) == SubSeq(seq, 1, i - 1) \o SubSeq(seq, i + 1, Len(seq))

(* The state the constructor leaves (lines 121-123), at the start of a day *)
(* whose open and close times are any seconds of the day.                  *)
Init ==
    /\ DiffIdle
    /\ BoardIdle
    /\ TopIdle
    /\ now = 0
    /\ configOpen \in 0..(DaySeconds - 1)
    /\ configClose \in 0..(DaySeconds - 1)
    /\ deadline = Undefined
    /\ looping = FALSE
    /\ ladderopen = TRUE
    /\ started = FALSE
    /\ final = 0
    /\ finalTimers = {}
    /\ openW = <<>>
    /\ closeW = <<>>
    /\ spin = "none"
    /\ reports = <<>>
    /\ setCalls = 0
    /\ lastDeadline = Undefined
    /\ firedId = 0
    /\ captures = 0
    /\ boots = 0
    /\ invalidCalls = 0

(* setDeadline(argument) with a timestamp that parses to `date`. *)
SetDeadline(date) ==
    /\ EventLoopFree
    /\ setCalls < MaxSetDeadline
    /\ deadline' = date
    /\ finalTimers' = clearTimeout(finalTimers, final)
                        \cup {[id |-> setCalls + 1, due |-> armedFor(date)]}
    /\ final' = setCalls + 1
    /\ IF bootstraps(looping)
       THEN /\ IF getNextOpenTime(now) < getNextCloseTime(now)
               THEN /\ ladderopen' = FALSE
                    /\ openW' = closeLadderArms(now)
                    /\ closeW' = closeW
                    /\ reports' = closeLadderReports(FALSE)
               ELSE /\ ladderopen' = TRUE
                    /\ closeW' = openLadderArms(now, date)
                    /\ openW' = openW
                    /\ reports' = <<"open">>
            /\ looping' = TRUE
            /\ boots' = boots + 1
       ELSE /\ reports' = <<>>
            /\ UNCHANGED <<ladderopen, openW, closeW, looping, boots>>
    /\ setCalls' = setCalls + 1
    /\ lastDeadline' = date
    /\ captures' = 0
    /\ UNCHANGED <<now, configOpen, configClose, started, spin, firedId,
                   invalidCalls, diffVars, topVars, boardVars>>

(* A setDeadline that stores the date before testing it: this.deadline     *)
(* becomes an Invalid Date, which compares like an unset one.              *)
invalidDateStored(dl) == Undefined

(* Line 133: the return on an unparseable date precedes the assignment of  *)
(* this.deadline.                                                          *)
invalidDateKeeps(dl) == dl

(* setDeadline(argument) with a timestamp that does not parse: line 133. *)
SetDeadlineInvalid ==
    /\ EventLoopFree
    /\ invalidCalls < MaxInvalidCalls
    /\ invalidCalls' = invalidCalls + 1
    /\ deadline' = invalidDateKeeps(deadline)
    /\ reports' = <<>>
    /\ UNCHANGED <<now, configOpen, configClose, looping, ladderopen,
                   started, final, finalTimers, openW, closeW, spin, setCalls,
                   lastDeadline, firedId, captures, boots, diffVars, topVars, boardVars>>

(* The body of captureFinalLeaderboard once its check lets it through: the *)
(* final leaderboard is reported and this.deadline is cleared.             *)
Capture(said) ==
    /\ reports' = said \o <<"final">>
    /\ deadline' = Undefined
    /\ captures' = captures + 1

(* The deadline timer fires: stop(), then captureFinalLeaderboard(). *)
FinalTimerFires ==
    /\ EventLoopFree
    /\ \E tm \in finalTimers :
        /\ now >= tm.due
        /\ finalTimers' = finalTimers \ {tm}
        /\ firedId' = tm.id
    /\ started' = FALSE
    /\ IF captureWaits(now, deadline)
       THEN /\ spin' = "final"
            /\ reports' = stopReports
            /\ UNCHANGED <<deadline, captures>>
       ELSE /\ spin' = spin
            /\ Capture(stopReports)
    /\ UNCHANGED <<now, configOpen, configClose, looping, ladderopen, final, openW,
                   closeW, setCalls, lastDeadline, boots, invalidCalls, diffVars, topVars, boardVars>>

(* captureFinalLeaderboard, re-queued, finds the deadline reached. *)
FinalRecheck ==
    /\ spin = "final"
    /\ ~captureWaits(now, deadline)
    /\ spin' = "none"
    /\ Capture(<<>>)
    /\ UNCHANGED <<now, configOpen, configClose, looping, ladderopen, started, final,
                   finalTimers, openW, closeW, setCalls, lastDeadline, firedId, boots, invalidCalls,
                   diffVars, topVars, boardVars>>

(* openLadder() called by the open-watcher. *)
WatcherOpens ==
    /\ ladderopen' = TRUE
    /\ reports' = <<"open">>
    /\ looping' = IF deadlinePassed(now, deadline) THEN FALSE ELSE looping
    /\ closeW' = openLadderArms(now, deadline)

(* closeLadder() called by the close-watcher. *)
WatcherCloses ==
    /\ ladderopen' = FALSE
    /\ reports' = closeLadderReports(TRUE)
    /\ openW' = closeLadderArms(now)
    /\ UNCHANGED looping

(* An open-watcher timer fires: openLadderWatcher(). *)
OpenTimerFires ==
    /\ EventLoopFree
    /\ \E i \in 1..Len(openW) :
        /\ now >= openW[i]
        /\ IF now < getNextOpenTime(now)
           THEN /\ spin' = "open"
                /\ openW' = Removed(openW, i)
                /\ reports' = <<>>
                /\ UNCHANGED <<ladderopen, looping, closeW>>
           ELSE /\ spin' = spin
                /\ openW' = Removed(openW, i)
                /\ WatcherOpens
    /\ UNCHANGED <<now, configOpen, configClose, deadline, started, final, finalTimers,
                   setCalls, lastDeadline, firedId, captures, boots, invalidCalls, diffVars, topVars, boardVars>>

(* openLadderWatcher, re-queued, finds the open time reached. *)
OpenRecheck ==
    /\ spin = "open"
    /\ ~(now < getNextOpenTime(now))
    /\ spin' = "none"
    /\ WatcherOpens
    /\ UNCHANGED <<now, configOpen, configClose, deadline, started, final, finalTimers,
                   openW, setCalls, lastDeadline, firedId, captures, boots, invalidCalls,
                   diffVars, topVars, boardVars>>

(* A close-watcher timer fires: closeLadderWatcher(). *)
CloseTimerFires ==
    /\ EventLoopFree
    /\ \E i \in 1..Len(closeW) :
        /\ now >= closeW[i]
        /\ IF now < getNextCloseTime(now)
           THEN /\ spin' = "close"
                /\ closeW' = Removed(closeW, i)
                /\ reports' = <<>>
                /\ UNCHANGED <<ladderopen, looping, openW>>
           ELSE /\ spin' = spin
                /\ closeW' = Removed(closeW, i)
                /\ WatcherCloses
    /\ UNCHANGED <<now, configOpen, configClose, deadline, started, final, finalTimers,
                   setCalls, lastDeadline, firedId, captures, boots, invalidCalls, diffVars, topVars, boardVars>>

(* closeLadderWatcher, re-queued, finds the close time reached. *)
CloseRecheck ==
    /\ spin = "close"
    /\ ~(now < getNextCloseTime(now))
    /\ spin' = "none"
    /\ WatcherCloses
    /\ UNCHANGED <<now, configOpen, configClose, deadline, started, final, finalTimers,
                   closeW, setCalls, lastDeadline, firedId, captures, boots, invalidCalls,
                   diffVars, topVars, boardVars>>

(* start(): the polling interval is set, unless it is already. *)
Start ==
    /\ EventLoopFree
    /\ ~started
    /\ started' = TRUE
    /\ reports' = <<"status">>
    /\ UNCHANGED <<now, configOpen, configClose, deadline, looping, ladderopen, final,
                   finalTimers, openW, closeW, spin, setCalls, lastDeadline, firedId,
                   captures, boots, invalidCalls, diffVars, topVars, boardVars>>

(* The stop command: stop(). *)
Stop ==
    /\ EventLoopFree
    /\ started
    /\ started' = FALSE
    /\ reports' = stopReports
    /\ UNCHANGED <<now, configOpen, configClose, deadline, looping, ladderopen, final,
                   finalTimers, openW, closeW, spin, setCalls, lastDeadline, firedId,
                   captures, boots, invalidCalls, diffVars, topVars, boardVars>>

(* Half a second passes.  A running re-check loop acts as soon as its      *)
(* condition holds; a timer fires at most MaxLate ticks late once the      *)
(* event loop is free.                                                     *)
AllDue ==
    {tm.due : tm \in finalTimers} \cup {openW[i] : i \in 1..Len(openW)}
        \cup {closeW[i] : i \in 1..Len(closeW)}

Tick ==
    /\ now < MaxTime
    /\ ~SpinReady
    /\ EventLoopFree => \A due \in AllDue : now < due + MaxLate
    /\ now' = now + 1
    /\ UNCHANGED <<reports, configOpen, configClose, deadline, looping, ladderopen, started,
                   final, finalTimers, openW, closeW, spin, setCalls, lastDeadline,
                   firedId, captures, boots, invalidCalls, diffVars, topVars, boardVars>>

Next ==
    \/ \E date \in 0..MaxDeadline : SetDeadline(date)
    \/ SetDeadlineInvalid
    \/ FinalTimerFires
    \/ FinalRecheck
    \/ OpenTimerFires
    \/ OpenRecheck
    \/ CloseTimerFires
    \/ CloseRecheck
    \/ Start
    \/ Stop
    \/ Tick

Spec == Init /\ [][Next]_vars

----------------------------------------------------------------------------
InitDiff ==
    /\ DiffInputs
    /\ diffs = EmptyMap
    /\ dnum = 0
    /\ changed = FALSE
    /\ dpc = "input"
    /\ BoardIdle
    /\ TopIdle
    /\ SchedIdle
    /\ ladderopen = TRUE

NextDiff ==
    \/ \E num \in 0..MaxLen : GetDiffs(num) /\ UNCHANGED <<topVars, ladderopen, schedVars, boardVars>>
    \/ TrackChanges /\ UNCHANGED <<topVars, ladderopen, schedVars, boardVars>>

SpecDiff == InitDiff /\ [][NextDiff]_vars

----------------------------------------------------------------------------
(* The ladder file and getLeaderboard.                                     *)

MaxRows == 2       \* most lines in a ladder file

(* parseFloat of an Elo field, in tenths of a point, and Math.round of it. *)
parseFloat(field) ==
    CASE field = "1500.4" -> 15004
      [] field = "1499.5" -> 14995

MathRound(tenths) == (tenths + 5) \div 10

(* parseInt of a win or lose field. *)
parseInt(field) ==
    CASE field = "0" -> 0
      [] field = "1" -> 1
      [] field = "2" -> 2

(* Lines of a ladder file, split at tabs: Elo, Username, W, L, T and the   *)
(* date of the last update; and a line cut short.                          *)
LadderRows ==
    { <<"1500.4", <<"A">>, "2", "1", "0", "date">>,
      <<"1499.5", <<"B", "_">>, "1", "0", "0", "date">>,
      <<"1499.5", <<"b", "C">>, "0", "0", "0", "date">>,
      <<"1500.4", <<"A">>, "2">> }

(* The server keeps one line per user in a ladder file. *)
OneRowPerUser(rows) ==
    \A i, j \in 1..Len(rows) :
        (Len(rows[i]) >= 4 /\ Len(rows[j]) >= 4 /\ rows[i][2] = rows[j][2]) => i = j

LadderFiles ==
    {[kind |-> "unreadable"]} \cup
    {[kind |-> "rows", rows |-> rows] :
        rows \in {r \in UNION {[1..n -> LadderRows] : n \in 0..MaxRows} :
                     OneRowPerUser(r)}}

(* A prefix test that lets every row through. *)
keepsRowAlways(userid, pre) == TRUE

(* Line 520: rows whose id does not start with this.prefix are skipped. *)
keepsRow(userid, pre) == startsWith(userid, pre)

(* The loop of lines 510-523 over the rows of at least 4 fields: the       *)
(* leaderboard and the lookup it builds.  entry.rank is set on the object  *)
(* the lookup holds too; 0 stands for a rank never set.                    *)
RECURSIVE BoardPass(_, _, _)
BoardPass(acc, rows, pre) ==
    IF rows = <<>> THEN acc
    ELSE LET data   == Head(rows)
             userid == toID(data[2])
             kept   == keepsRow(userid, pre)
             entry  == [name |-> data[2],
                        elo  |-> MathRound(parseFloat(data[1])),
                        win  |-> parseInt(data[3]),
                        lose |-> parseInt(data[4]),
                        rank |-> IF kept THEN Len(acc.leaderboard) + 1 ELSE 0]
         IN  BoardPass([leaderboard |-> IF kept THEN Append(acc.leaderboard, entry)
                                        ELSE acc.leaderboard,
                        lookup |-> MapSet(acc.lookup, userid, entry)],
                       Tail(rows), pre)

(* A getLeaderboard that empties the lookup before it reads the file. *)
lookupAfterFailureCleared(lk) == EmptyMap

(* Line 509 follows the read of line 508: when readFileSync throws, the    *)
(* lookup is the one of before.                                            *)
lookupAfterFailure(lk) == lk

(* getLeaderboard(display) on a ladder file, with this.leaderboard.lookup  *)
(* = lk, .last = lst and this.changed = chg: the sequence returned, what   *)
(* is reported, and the three fields afterwards.                           *)
getLeaderboard(file, pre, display, lk, lst, chg) ==
    IF file.kind = "unreadable"
    THEN [leaderboard |-> <<>>, lookup |-> lookupAfterFailure(lk), last |-> lst,
          changed |-> chg, reported |-> IF display THEN <<"failed">> ELSE <<>>]
    ELSE LET rows == SelectSeq(file.rows, LAMBDA row : Len(row) >= 4)
             read == BoardPass([leaderboard |-> <<>>, lookup |-> EmptyMap], rows, pre)
         IN  IF display
             THEN [leaderboard |-> read.leaderboard, lookup |-> read.lookup,
                   last |-> [defined |-> TRUE, rows |-> read.leaderboard],
                   changed |-> FALSE, reported |-> <<"leaderboard">>]
             ELSE [leaderboard |-> read.leaderboard, lookup |-> read.lookup,
                   last |-> lst, changed |-> chg, reported |-> <<>>]

----------------------------------------------------------------------------
(* SpecBoard: the leaderboard command and the poll tick, each finding the  *)
(* ladder file in any state the server or a failing disk may leave it in.  *)

BoardCutoffs == {0, 2}

InitBoard ==
    /\ BoardIdle
    /\ last = <<>>
    /\ current = <<>>
    /\ cutoff \in BoardCutoffs
    /\ hasCurrent = FALSE
    /\ diffs = EmptyMap
    /\ dnum = 0
    /\ changed = FALSE
    /\ dpc = "input"
    /\ topFile = [kind |-> "absent"]
    /\ prefix \in {toID(c) : c \in ConfigPrefixes}
    /\ calls = 0
    /\ topCall = NoCall
    /\ openUpdates = 0
    /\ ladderopen = TRUE
    /\ SchedIdle

(* The leaderboard command: getLeaderboard(true). *)
ShowLeaderboard(file) ==
    LET r == getLeaderboard(file, prefix, TRUE, lookup, boardLast, changed)
    IN  /\ ladder' = file
        /\ returned' = r.leaderboard
        /\ lookup' = r.lookup
        /\ boardLast' = r.last
        /\ changed' = r.changed
        /\ notices' = r.reported
        /\ call' = "display"
        /\ tracked' = FALSE
        /\ UNCHANGED <<boardCurrent, pending, currentBuilt, last, current, cutoff,
                       diffs, dnum, hasCurrent, dpc, topVars, ladderopen, schedVars>>

(* A tick of the polling interval set by start() (lines 740-749), with     *)
(* this.showdiffs as the constructor leaves it: the room list is asked     *)
(* for, the ladder is read, and unless it came back empty trackChanges     *)
(* runs and this.leaderboard.current is replaced.                          *)
PollTick(file) ==
    LET r == getLeaderboard(file, prefix, FALSE, lookup, boardLast, changed)
    IN  /\ ladder' = file
        /\ returned' = r.leaderboard
        /\ lookup' = r.lookup
        /\ boardLast' = r.last
        /\ notices' = <<"roomlist">> \o r.reported
        /\ call' = "poll"
        /\ IF Len(r.leaderboard) = 0
           THEN /\ tracked' = FALSE
                /\ UNCHANGED <<boardCurrent, currentBuilt, changed>>
           ELSE /\ tracked' = TRUE
                /\ changed' = trackChanges(boardCurrent.defined, boardCurrent.rows,
                                           r.leaderboard, cutoff, r.changed)
                /\ boardCurrent' = [defined |-> TRUE, rows |-> r.leaderboard]
                /\ currentBuilt' = prefix
        /\ UNCHANGED <<pending, last, current, cutoff, diffs, dnum, hasCurrent, dpc,
                       topVars, ladderopen, schedVars>>

NextBoard ==
    \/ \E file \in LadderFiles : ShowLeaderboard(file)
    \/ \E file \in LadderFiles : PollTick(file)

SpecBoard == InitBoard /\ [][NextBoard]_vars

----------------------------------------------------------------------------
(* SpecPrefix: the poll tick in its two parts, before and after its await, *)
(* and the prefix command.                                                 *)

(* An event loop that may run a callback between the two parts. *)
callbackMayRunAnytime(queued) == TRUE

(* Line 745: getLeaderboard has no await of its own, so the promise the    *)
(* poll tick awaits is already resolved and its continuation is a          *)
(* microtask: it runs when the interval callback returns, before the       *)
(* callback of any timer or socket message.                                *)
callbackMayRun(queued) == ~queued

(* The interval callback up to its await (lines 740-745): the room list is *)
(* asked for and getLeaderboard() builds the snapshot.                     *)
PollBuild(file) ==
    /\ callbackMayRun(pending.queued)
    /\ LET r == getLeaderboard(file, prefix, FALSE, lookup, boardLast, changed)
       IN  /\ ladder' = file
           /\ returned' = r.leaderboard
           /\ lookup' = r.lookup
           /\ notices' = <<"roomlist">> \o r.reported
           /\ call' = "poll"
           /\ pending' = [queued |-> TRUE, rows |-> r.leaderboard, builtWith |-> prefix]
    /\ UNCHANGED <<boardCurrent, boardLast, tracked, currentBuilt, diffVars,
                   topVars, ladderopen, schedVars>>

(* The rest of the interval callback (lines 746-748). *)
PollStore ==
    /\ pending.queued
    /\ pending' = NoPending
    /\ IF Len(pending.rows) = 0
       THEN /\ tracked' = FALSE
            /\ UNCHANGED <<boardCurrent, currentBuilt, changed>>
       ELSE /\ tracked' = TRUE
            /\ changed' = trackChanges(boardCurrent.defined, boardCurrent.rows,
                                       pending.rows, cutoff, changed)
            /\ boardCurrent' = [defined |-> TRUE, rows |-> pending.rows]
            /\ currentBuilt' = pending.builtWith
    /\ UNCHANGED <<ladder, lookup, boardLast, returned, notices, call,
                   last, current, cutoff, diffs, dnum, hasCurrent, dpc,
                   topVars, ladderopen, schedVars>>

(* The prefix command (lines 410-419). *)
PrefixCommand(argument) ==
    /\ callbackMayRun(pending.queued)
    /\ IF toID(argument) # <<>> /\ toID(argument) # prefix
       THEN /\ prefix' = toID(argument)
            /\ boardCurrent' = NoBoard
            /\ boardLast' = NoBoard
       ELSE UNCHANGED <<prefix, boardCurrent, boardLast>>
    /\ notices' = <<"prefix", "laddertour prefix">>
    /\ UNCHANGED <<ladder, lookup, returned, call, tracked, pending, currentBuilt,
                   topFile, calls, topCall, openUpdates, diffVars, ladderopen,
                   schedVars>>

NextPrefix ==
    \/ \E file \in LadderFiles : PollBuild(file)
    \/ PollStore
    \/ \E argument \in PrefixArguments \cup {<<"_">>} : PrefixCommand(argument)

(* A bot configured without prefix: every prefix is set by command. *)
InitPrefix ==
    /\ InitBoard
    /\ prefix = <<>>

SpecPrefix == InitPrefix /\ [][NextPrefix]_vars

----------------------------------------------------------------------------
(* SpecWatch: the scheduler together with the ticks of watchTop, for a bot *)
(* whose polling was not started (this.leaderboard.current stays unset).   *)

(* A watchTop that goes on whatever the deadline. *)
watchTopReturnsNever(t, dl) == FALSE

(* Line 634: !this.deadline || +now >= +this.deadline *)
watchTopReturns(t, dl) == dl = Undefined \/ t >= dl

(* The ladder file as a tick of watchTop may find it: unreadable, or with  *)
(* one user on it, one of two.                                             *)
WatchFiles ==
    {f \in LadderFiles :
        \/ f.kind = "unreadable"
        \/ /\ Len(f.rows) = 1
           /\ Len(f.rows[1]) >= 4
           /\ Len(toID(f.rows[1][2])) = 1}

(* A tick of watchTop (lines 631-644); `cooled` tells whether the cooldown *)
(* of the leaderboard command is over.                                     *)
WatchTop(file, cooled) ==
    /\ EventLoopFree
    /\ IF watchTopReturns(now, deadline)
       THEN UNCHANGED <<topVars, boardVars>>
       ELSE LET useCurrent  == boardCurrent.defined /\ cooled
                r           == getLeaderboard(file, prefix, FALSE, lookup,
                                              boardLast, changed)
                leaderboard == IF useCurrent THEN boardCurrent.rows
                               ELSE r.leaderboard
            IN  /\ IF useCurrent
                   THEN UNCHANGED boardVars
                   ELSE /\ ladder' = file
                        /\ returned' = r.leaderboard
                        /\ lookup' = r.lookup
                        /\ notices' = r.reported
                        /\ call' = "watch"
                        /\ UNCHANGED <<boardCurrent, boardLast, tracked, pending,
                                       currentBuilt>>
                /\ IF Len(leaderboard) > 0
                   THEN TopLogCall(leaderboard[1].name, leaderboard[1].win,
                                   leaderboard[1].lose)
                   ELSE UNCHANGED topVars
    /\ UNCHANGED <<ladderopen, diffVars, schedVars>>

(* A day that opens at its second second and closes at its last. *)
InitWatch ==
    /\ Init
    /\ configOpen = 1
    /\ configClose = DaySeconds - 1

SchedulerStep ==
    \/ \E date \in 0..MaxDeadline : SetDeadline(date)
    \/ FinalTimerFires
    \/ FinalRecheck
    \/ OpenTimerFires
    \/ OpenRecheck
    \/ CloseTimerFires
    \/ CloseRecheck
    \/ Tick

NextWatch ==
    \/ SchedulerStep
    \/ \E file \in WatchFiles, cooled \in BOOLEAN : WatchTop(file, cooled)

SpecWatch == InitWatch /\ [][NextWatch]_vars

----------------------------------------------------------------------------
(* Properties of the diff engine, checked under SpecDiff.                  *)

AllIds == {toID(nm) : nm \in DiffNames}

(* The 1-based position of id in a snapshot of distinct ids; Infinity when *)
(* it is not there.                                                        *)
RankIn(board, id) ==
    IF \E i \in 1..Len(board) : toID(board[i].name) = id
    THEN CHOOSE i \in 1..Len(board) : toID(board[i].name) = id
    ELSE Infinity

ExampleLast == <<Entry(<<"A">>), Entry(<<"B">>), Entry(<<"C">>)>>
ExampleCurrent == <<Entry(<<"B">>), Entry(<<"A">>), Entry(<<"D">>)>>

RankPairs(ds) == [id \in DOMAIN ds |-> <<ds[id].oldrank, ds[id].newrank>>]

(* C1: without a window, getDiffs(last, current) holds a record for an id  *)
(* exactly when the id's position in `last` differs from its position in   *)
(* `current` (a missing id ranks Infinity), and the record carries that    *)
(* pair; [A,B,C] -> [B,A,D] gives A:(1,2), B:(2,1), C:(3,inf), D:(inf,3),  *)
(* and a snapshot compared with itself gives no record.                    *)
C1_RecordIffRankDiffers ==
    (dpc = "diffed" /\ dnum = 0) =>
        /\ DOMAIN diffs \subseteq AllIds
        /\ \A id \in AllIds :
            /\ id \in DOMAIN diffs <=> RankIn(last, id) # RankIn(current, id)
            /\ id \in DOMAIN diffs =>
                /\ diffs[id].oldrank = RankIn(last, id)
                /\ diffs[id].newrank = RankIn(current, id)
        /\ (last = ExampleLast /\ current = ExampleCurrent) =>
                RankPairs(diffs) = [id \in AllIds |->
                    CASE id = <<"a">> -> <<1, 2>>
                      [] id = <<"b">> -> <<2, 1>>
                      [] id = <<"c">> -> <<3, Infinity>>
                      [] id = <<"d">> -> <<Infinity, 3>>]
        /\ last = current => diffs = EmptyMap

C1_Witness ==
    /\ dpc = "diffed"
    /\ dnum = 0
    /\ last = ExampleLast
    /\ current = ExampleCurrent
    /\ DOMAIN diffs = AllIds

(* C5: after trackChanges with cutoff n, `changed` is set when some diff   *)
(* record crosses the cutoff, and is not set when every record stays on    *)
(* one side of it.                                                         *)
C5_ChangedIffCrossing ==
    (dpc = "tracked" /\ hasCurrent /\ cutoff > 0) =>
        (changed <=> \E id \in DOMAIN diffs : CrossesCutoff(diffs[id], cutoff))

(* C16: with a window w, getDiffs compares the first w entries of `last`   *)
(* with the first w entries of `current`: an id in the one window and not  *)
(* in the other has a record, with newrank Infinity and elo 0 when it left *)
(* the window and oldrank Infinity when it entered it.                     *)
C16_WindowRestrictsBoth ==
    (dpc = "diffed" /\ dnum > 0) =>
        \A id \in AllIds :
            LET inLast    == RankIn(slice(last, dnum), id)
                inCurrent == RankIn(slice(current, dnum), id)
            IN  /\ (inLast # Infinity /\ inCurrent = Infinity) =>
                        /\ id \in DOMAIN diffs
                        /\ diffs[id].oldrank = inLast
                        /\ diffs[id].newrank = Infinity
                        /\ diffs[id].elo = 0
                /\ (inCurrent # Infinity /\ inLast = Infinity) =>
                        /\ id \in DOMAIN diffs
                        /\ diffs[id].newrank = inCurrent
                        /\ diffs[id].oldrank = Infinity

----------------------------------------------------------------------------
(* Properties of the top-log, checked under SpecTop.                       *)

IsUpdate == calls' = calls + 1

(* The stored log carries the active prefix and the incoming name is its   *)
(* reigning entrant: the case of line 650 on a stored log.                 *)
StoredSameTop(username) ==
    /\ topFile.kind = "json"
    /\ topFile.prefix = prefix
    /\ toID(username) = topFile.currenttop

(* C2: an update by the reigning entrant adds exactly 1 to that entry's    *)
(* ticks when the ladder is open and nothing when it is closed, and        *)
(* changes no other entry's ticks; so the reigning entry's ticks are 1     *)
(* plus the updates it received while the ladder was open.                 *)
C2_TicksCountOpenUpdates ==
    /\ [](topFile.kind = "json" /\ topFile.currenttop \in DOMAIN topFile.logs
            => topFile.logs[topFile.currenttop].ticks = 1 + openUpdates)
    /\ [][(IsUpdate /\ StoredSameTop(topCall'.username)) =>
            LET u == toID(topCall'.username)
            IN  /\ ~topCall'.threw
                /\ topFile'.kind = "json"
                /\ DOMAIN topFile'.logs = DOMAIN topFile.logs
                /\ topFile'.logs[u].ticks =
                       topFile.logs[u].ticks + (IF ladderopen THEN 1 ELSE 0)
                /\ \A o \in DOMAIN topFile.logs \ {u} :
                       topFile'.logs[o].ticks = topFile.logs[o].ticks]_vars

C2_Witness ==
    /\ topFile.kind = "json"
    /\ ~ladderopen
    /\ calls = 3
    /\ ~topCall.threw
    /\ toID(topCall.username) = topFile.currenttop
    /\ topFile.currenttop \in DOMAIN topFile.logs
    /\ topFile.logs[topFile.currenttop].ticks = 2
    /\ openUpdates = 1

(* C3: an update by the reigning entrant sets continuouswin to 0 when the  *)
(* incoming lose exceeds the stored currentstat.lose, and otherwise adds   *)
(* (incoming win - stored currentstat.win) to it; currentstat becomes the  *)
(* incoming pair and originalstat is kept.                                 *)
C3_StreakResetsOnLoss ==
    [][(IsUpdate /\ StoredSameTop(topCall'.username)) =>
        LET u   == toID(topCall'.username)
            old == topFile.logs[u]
            new == topFile'.logs[u]
        IN  /\ new.continuouswin =
                   IF topCall'.lose > old.currentstat.lose THEN 0
                   ELSE old.continuouswin + (topCall'.win - old.currentstat.win)
            /\ new.currentstat = Stat(topCall'.win, topCall'.lose)
            /\ new.originalstat = old.originalstat]_vars

(* A streak that was built up and then broken by a loss. *)
C3_Witness ==
    /\ topFile.kind = "json"
    /\ calls = 3
    /\ toID(topCall.username) = topFile.currenttop
    /\ topFile.currenttop \in DOMAIN topFile.logs
    /\ LET e == topFile.logs[topFile.currenttop]
       IN  /\ e.continuouswin = 0
           /\ e.ticks = 3
           /\ e.currentstat.win > e.originalstat.win
           /\ e.currentstat.lose > e.originalstat.lose

(* C4: when the stored log's prefix is not the active prefix, the next     *)
(* updateTopLog writes a log with the active prefix and exactly one entry, *)
(* for the incoming id, with ticks 1, continuouswin 0 and both stats the   *)
(* incoming pair.                                                          *)
C4_PrefixChangeStartsFresh ==
    [][(IsUpdate /\ topFile.kind = "json" /\ topFile.prefix # prefix) =>
        LET u == toID(topCall'.username)
        IN  /\ topFile'.kind = "json"
            /\ topFile'.prefix = prefix
            /\ topFile'.currenttop = u
            /\ DOMAIN topFile'.logs = {u}
            /\ topFile'.logs[u].ticks = 1
            /\ topFile'.logs[u].continuouswin = 0
            /\ topFile'.logs[u].currentstat = Stat(topCall'.win, topCall'.lose)
            /\ topFile'.logs[u].originalstat = Stat(topCall'.win, topCall'.lose)]_vars

(* C11: in the persisted log a non-empty currenttop always has its entry   *)
(* in logs.                                                                *)
C11_CurrentTopHasEntry ==
    (topFile.kind = "json" /\ topFile.currenttop # <<>>) =>
        topFile.currenttop \in DOMAIN topFile.logs

(* A log whose top changed hands and was updated by its new holder. *)
C11_Witness ==
    /\ topFile.kind = "json"
    /\ topFile.currenttop = <<"b">>
    /\ DOMAIN topFile.logs = {<<"a">>, <<"b">>}
    /\ topFile.logs[<<"b">>].ticks = 2
    /\ calls = 3

(* C12: an updateTopLog call on a tops.json that exists but cannot be      *)
(* parsed raises nothing and writes what it writes when the file is        *)
(* absent: a log with the active prefix holding the incoming entry.        *)
C12_CorruptTreatedAsAbsent ==
    [][(IsUpdate /\ topFile.kind = "corrupt" /\ toID(topCall'.username) # <<>>) =>
        /\ ~topCall'.threw
        /\ topFile' = updateTopLog([kind |-> "absent"], prefix, ladderopen,
                                   topCall'.username, topCall'.win, topCall'.lose,
                                   calls).file]_vars

(* C14: when the incoming id is not currenttop but has an entry in the     *)
(* stored log, currenttop becomes that id and the entry keeps its ticks,   *)
(* starttime, originalstat and continuouswin; no other entry is touched.   *)
C14_ReturningTopKeepsEntry ==
    [][(IsUpdate /\ topFile.kind = "json" /\ topFile.prefix = prefix
            /\ toID(topCall'.username) # topFile.currenttop
            /\ toID(topCall'.username) \in DOMAIN topFile.logs) =>
        LET u   == toID(topCall'.username)
            old == topFile.logs[u]
            new == topFile'.logs[u]
        IN  /\ topFile'.currenttop = u
            /\ DOMAIN topFile'.logs = DOMAIN topFile.logs
            /\ new.ticks = old.ticks
            /\ new.starttime = old.starttime
            /\ new.originalstat = old.originalstat
            /\ new.continuouswin = old.continuouswin]_vars

(* C22: on a log that parses, every updateTopLog call completes and leaves *)
(* a log whose currenttop has its entry, whatever the incoming name.       *)
C22_UpdateNeverThrows ==
    [][(IsUpdate /\ topFile.kind # "corrupt") =>
        /\ ~topCall'.threw
        /\ topFile'.kind = "json"
        /\ topFile'.currenttop \in DOMAIN topFile'.logs]_vars

(* C22 for the names that have an alphanumeric character. *)
C22_NamedUpdateNeverThrows ==
    [][(IsUpdate /\ topFile.kind # "corrupt" /\ toID(topCall'.username) # <<>>) =>
        /\ ~topCall'.threw
        /\ topFile'.kind = "json"
        /\ topFile'.currenttop = toID(topCall'.username)
        /\ topFile'.currenttop \in DOMAIN topFile'.logs]_vars

(* The part of C14 the code keeps: the log accumulates one entry per id    *)
(* that held the top under the stored prefix.                              *)
C14_EntriesAccumulate ==
    [][(IsUpdate /\ topFile.kind = "json" /\ topFile.prefix = prefix
            /\ ~topCall'.threw) =>
        DOMAIN topFile'.logs = DOMAIN topFile.logs \cup {toID(topCall'.username)}]_vars

----------------------------------------------------------------------------
(* Properties of the scheduler, checked under Spec.                        *)

SecondOfDay(t) == (t % DayTicks) \div TicksPerSecond

(* Whole seconds from instant t to the next occurrence of a second of the  *)
(* day (0 when t is in that second).                                       *)
SecondsUntil(t, second) == (second + DaySeconds - SecondOfDay(t)) % DaySeconds

OpenPending == Len(openW) + (IF spin = "open" THEN 1 ELSE 0)
ClosePending == Len(closeW) + (IF spin = "close" THEN 1 ELSE 0)

(* Steps: a valid setDeadline, one that starts the loop, the open made by  *)
(* the open-watcher, the firing of a deadline timer, the final capture.    *)
IsSetDeadline == setCalls' = setCalls + 1
IsBootstrap == IsSetDeadline /\ ~looping
IsWatcherOpen == ~ladderopen /\ ladderopen' /\ ~IsSetDeadline
IsFinalFire == ~IsSetDeadline /\ finalTimers' # finalTimers
IsCapture == captures' = captures + 1

(* C6: setDeadline with a valid timestamp and no loop running starts the   *)
(* ladder Closed (close announced, ladderopen false, open-watcher armed)   *)
(* when the next open boundary is strictly sooner than the next close      *)
(* boundary, and Open (open announced, ladderopen true, close-watcher      *)
(* armed) otherwise; with open < close < the time of day both boundaries   *)
(* fall on the next day and the start is Closed.                           *)
C6_BootstrapPhase ==
    [][IsBootstrap =>
        /\ IF SecondsUntil(now, configOpen) < SecondsUntil(now, configClose)
           THEN /\ ~ladderopen'
                /\ reports' = <<"close">>
                /\ OpenPending' = 1
           ELSE /\ ladderopen'
                /\ reports' = <<"open">>
                /\ ClosePending' = 1
        /\ (configOpen < configClose /\ configClose < SecondOfDay(now)) =>
                /\ getNextOpenTime(now) >= now - (now % DayTicks) + DayTicks
                /\ getNextCloseTime(now) >= now - (now % DayTicks) + DayTicks
                /\ ~ladderopen']_vars

(* C6 without the arming of the close-watcher on the Open branch. *)
C6_PhaseOnly ==
    [][IsBootstrap =>
        /\ IF SecondsUntil(now, configOpen) < SecondsUntil(now, configClose)
           THEN /\ ~ladderopen'
                /\ reports' = <<"close">>
                /\ OpenPending' = 1
           ELSE /\ ladderopen'
                /\ reports' = <<"open">>
                /\ ClosePending' = (IF deadlinePassed(now, deadline') THEN 0 ELSE 1)
        /\ (configOpen < configClose /\ configClose < SecondOfDay(now)) =>
                /\ getNextOpenTime(now) >= now - (now % DayTicks) + DayTicks
                /\ getNextCloseTime(now) >= now - (now % DayTicks) + DayTicks
                /\ ~ladderopen']_vars

(* C7: at most one open-watcher and at most one close-watcher is pending   *)
(* (its timer armed or its re-check loop running).                         *)
C7_OneWatcherOfEachKind == OpenPending <= 1 /\ ClosePending <= 1

(* The loop was started a second time, after openLadder had ended it. *)
C7_Witness == boots = 2 /\ OpenPending + ClosePending = 1

(* C8: the open made by the open-watcher at or after the deadline instant  *)
(* announces the open, clears looping and arms no close-watcher.           *)
C8_DeadlineEndsLoop ==
    [][(IsWatcherOpen /\ lastDeadline # Undefined /\ now >= lastDeadline) =>
        /\ reports' = <<"open">>
        /\ ~looping'
        /\ ClosePending' = 0]_vars

(* C9: for a deadline that was set the final capture happens at most once, *)
(* only with the clock at or past that deadline and with polling stopped;  *)
(* while the deadline stands its timer or its re-check loop is pending, so *)
(* the capture is never lost, and only the capture clears the deadline.    *)
C9_DeadlineExpiresOnce ==
    /\ [](captures <= 1)
    /\ [](deadline # Undefined => (finalTimers # {} \/ spin = "final"))
    /\ []((setCalls > 0 /\ deadline = Undefined) => captures = 1)
    /\ [][IsFinalFire => ~started']_vars
    /\ [][IsCapture =>
            /\ lastDeadline # Undefined
            /\ now >= lastDeadline
            /\ ~started'
            /\ reports'[Len(reports')] = "final"
            /\ deadline' = Undefined]_vars

C9_Witness ==
    /\ captures = 1
    /\ deadline = Undefined
    /\ now = lastDeadline
    /\ reports = <<"stopped">> \o <<"final">>

(* C10: a valid setDeadline leaves exactly one deadline timer armed, the   *)
(* one for the new deadline, so at most one is armed at any time; only the *)
(* timer of the latest call ever fires, and the final capture waits for    *)
(* the latest deadline.                                                    *)
C10_LastDeadlineWins ==
    /\ [](Cardinality(finalTimers) <= 1)
    /\ [][IsSetDeadline =>
            /\ finalTimers' = {[id |-> setCalls', due |-> lastDeadline' - Margin]}
            /\ final' = setCalls'
            /\ deadline' = lastDeadline']_vars
    /\ [][IsFinalFire => firedId' = setCalls]_vars
    /\ [][IsCapture => (firedId' = setCalls /\ now >= lastDeadline)]_vars

(* A second call made while the first call's timer was still armed. *)
C10_Witness ==
    /\ setCalls = 2
    /\ firedId = 0
    /\ finalTimers = {[id |-> 2, due |-> lastDeadline - Margin]}

(* Steps: a setDeadline call with an unparseable timestamp, the close made *)
(* by the close-watcher, the callback of an open- or close-watcher timer.  *)
IsInvalidCall == invalidCalls' = invalidCalls + 1
IsWatcherClose == ~IsSetDeadline /\ Len(openW') > Len(openW)
IsOpenTimerFire == Len(openW') < Len(openW)
IsCloseTimerFire == Len(closeW') < Len(closeW)

Range(seq) == {seq[i] : i \in 1..Len(seq)}

(* C13: a setDeadline call with an unparseable timestamp changes neither   *)
(* the deadline, its timer, looping, ladderopen nor the watchers, and      *)
(* reports nothing.                                                        *)
C13_InvalidDeadlineIsNoOp ==
    [][IsInvalidCall =>
        /\ UNCHANGED <<deadline, final, finalTimers, looping, ladderopen,
                       openW, closeW, spin>>
        /\ reports' = <<>>]_vars

(* An unparseable call made with a deadline armed and the loop running. *)
C13_Witness ==
    /\ invalidCalls = 1
    /\ setCalls = 1
    /\ deadline = lastDeadline
    /\ deadline # Undefined
    /\ finalTimers = {[id |-> 1, due |-> lastDeadline - Margin]}
    /\ looping
    /\ spin = "none"
    /\ reports = <<>>

(* C15: the callback of a watcher armed for boundary T (its timer is due   *)
(* at T - Margin) performs its action in that very callback when the clock *)
(* is at or past T, however late the callback runs, and leaves it to the   *)
(* re-check loop when the clock is before T.                               *)
C15_WatcherActsWhenDue ==
    [][/\ IsOpenTimerFire =>
            IF now >= openW[1] + Margin
            THEN ladderopen' /\ reports' = <<"open">> /\ spin' = "none"
            ELSE spin' = "open" /\ UNCHANGED ladderopen
       /\ IsCloseTimerFire =>
            IF now >= closeW[1] + Margin
            THEN ~ladderopen' /\ reports' = <<"close", "decay">> /\ spin' = "none"
            ELSE spin' = "close" /\ UNCHANGED ladderopen]_vars

(* C17: the close made by the close-watcher reports the close and then the *)
(* decay command, once; no other step (the close that starts the loop in   *)
(* setDeadline, the deadline timer, the final capture, stop) reports the   *)
(* decay command.                                                          *)
C17_DecayOnlyOnWatcherClose ==
    /\ [][IsWatcherClose => reports' = <<"close", "decay">>]_vars
    /\ [][(~IsWatcherClose /\ now' = now) => "decay" \notin Range(reports')]_vars

(* The loop was started Open and the close-watcher closed the ladder. *)
C17_Witness ==
    /\ reports = <<"close", "decay">>
    /\ ~ladderopen
    /\ boots = 1
    /\ OpenPending = 1
    /\ ClosePending = 0

(* C18: a valid setDeadline made while the loop runs sets the deadline and *)
(* re-arms its timer, and changes neither ladderopen, looping nor the      *)
(* watchers, and reports nothing.                                          *)
C18_NoBootstrapWhileLooping ==
    [][(IsSetDeadline /\ looping) =>
        /\ deadline' = lastDeadline'
        /\ finalTimers' = {[id |-> final', due |-> lastDeadline' - Margin]}
        /\ UNCHANGED <<ladderopen, looping, openW, closeW, spin, boots>>
        /\ reports' = <<>>]_vars

(* A second call made while the loop started by the first was running. *)
C18_Witness ==
    /\ setCalls = 2
    /\ boots = 1
    /\ looping
    /\ invalidCalls = 0
    /\ spin = "none"
    /\ reports = <<>>
    /\ deadline = lastDeadline
    /\ OpenPending + ClosePending = 1

(* C21: while looping is true an open-watcher or a close-watcher is        *)
(* pending (its timer armed or its re-check loop running).                 *)
C21_LoopingHasWatcher == looping => OpenPending + ClosePending >= 1

(* C21 for the loops started with a deadline still ahead or started        *)
(* Closed: there the loop does run.                                        *)
C21_LoopingStartedAhead ==
    [][(IsBootstrap /\ ~(ladderopen' /\ deadlinePassed(now, deadline'))) =>
        OpenPending' + ClosePending' = 1]_vars

----------------------------------------------------------------------------
(* Properties of getLeaderboard, checked under SpecBoard.                  *)

(* C19: a getLeaderboard call that cannot read the ladder file returns the *)
(* empty sequence and leaves the lookup, current and last as they were; it *)
(* reports the failure when called for display and not otherwise; the poll *)
(* tick that gets the empty sequence does not call trackChanges and does   *)
(* not replace current (nor touch this.changed).                           *)
C19_UnreadableLadderIsEmpty ==
    /\ [][ladder'.kind = "unreadable" =>
            /\ returned' = <<>>
            /\ UNCHANGED <<lookup, boardCurrent, boardLast, changed>>
            /\ call' = "display" => notices' = <<"failed">>
            /\ call' = "poll" => ("failed" \notin Range(notices') /\ ~tracked')]_vars
    /\ [][(call' = "poll" /\ returned' = <<>>) =>
            (~tracked' /\ UNCHANGED <<boardCurrent, changed>>)]_vars

(* A poll tick that could not read the ladder, after a display and a poll  *)
(* tick that could.                                                        *)
C19_Witness ==
    /\ call = "poll"
    /\ ladder.kind = "unreadable"
    /\ returned = <<>>
    /\ notices = <<"roomlist">>
    /\ DOMAIN lookup = {<<"a">>, <<"b">>}
    /\ boardCurrent.defined /\ Len(boardCurrent.rows) = 1
    /\ boardLast.defined /\ Len(boardLast.rows) = 2

(* The rows of a ladder file that have at least 4 fields, and those of     *)
(* them whose id starts with the prefix.                                   *)
FullRows(file) == SelectSeq(file.rows, LAMBDA row : Len(row) >= 4)
PrefixedRows(file, pre) ==
    SelectSeq(FullRows(file), LAMBDA row : startsWith(toID(row[2]), pre))

(* C20: after a call that read the ladder file, the sequence returned is   *)
(* the rows of at least 4 fields whose id starts with the prefix, in file  *)
(* order, the i-th of them with rank i; the lookup holds the id of every   *)
(* row of at least 4 fields, so every id of the sequence.                  *)
C20_BoardIsPrefixedRowsInOrder ==
    ladder.kind = "rows" =>
        LET kept == PrefixedRows(ladder, prefix)
        IN  /\ Len(returned) = Len(kept)
            /\ \A i \in 1..Len(returned) :
                    /\ returned[i].name = kept[i][2]
                    /\ returned[i].rank = i
                    /\ toID(returned[i].name) \in DOMAIN lookup
            /\ \A i \in 1..Len(FullRows(ladder)) :
                    toID(FullRows(ladder)[i][2]) \in DOMAIN lookup

(* A file whose first row is not prefixed: the second row ranks first. *)
C20_Witness ==
    /\ ladder.kind = "rows"
    /\ prefix = <<"b">>
    /\ Len(FullRows(ladder)) = 2
    /\ Len(returned) = 1
    /\ returned[1].name = ladder.rows[2][2]
    /\ returned[1].rank = 1
    /\ DOMAIN lookup = {<<"a">>, <<"b">>}

----------------------------------------------------------------------------
(* Properties of watchTop, checked under SpecWatch.                        *)

(* C23: tops.json changes only in a step taken with a deadline set and the *)
(* clock strictly before it, and that step is an updateTopLog call made by *)
(* a watchTop tick on a non-empty leaderboard; with no deadline set, or at *)
(* or after it, or once the final capture has cleared it, nothing changes  *)
(* the top-log.                                                            *)
C23_TopLogOnlyBeforeDeadline ==
    /\ [][topFile' # topFile =>
            /\ deadline # Undefined
            /\ now < deadline
            /\ IsUpdate
            /\ call' = "watch"
            /\ Len(returned') > 0
            /\ toID(returned'[1].name) = topFile'.currenttop]_vars
    /\ [][(deadline = Undefined \/ now >= deadline) => UNCHANGED topVars]_vars

(* The top-log written before the deadline and left alone since the final  *)
(* capture.                                                                *)
C23_Witness ==
    /\ topFile.kind = "json"
    /\ calls = 2
    /\ captures = 1
    /\ deadline = Undefined
    /\ now > lastDeadline
    /\ ~ladderopen

----------------------------------------------------------------------------
(* Properties of the prefix command, checked under SpecPrefix.             *)

IsPollStore == pending.queued /\ ~pending'.queued

(* C24: this.leaderboard.current, when set, was built with this.prefix,    *)
(* so was the snapshot a poll tick hands to trackChanges: whenever         *)
(* trackChanges computes a diff, both snapshots were built with the        *)
(* prefix in force.                                                        *)
C24_DiffWithinOnePrefix ==
    /\ [](boardCurrent.defined => currentBuilt = prefix)
    /\ [](pending.queued => pending.builtWith = prefix)
    /\ [][(IsPollStore /\ tracked' /\ boardCurrent.defined /\ cutoff # 0) =>
            /\ currentBuilt = pending.builtWith
            /\ pending.builtWith = prefix]_vars

(* A diff computed, and this.changed raised by it, between two snapshots   *)
(* built after the prefix command set the prefix.                          *)
C24_Witness ==
    /\ prefix = <<"b">>
    /\ cutoff # 0
    /\ tracked
    /\ changed
    /\ ~pending.queued
    /\ boardCurrent.defined
    /\ Len(boardCurrent.rows) = 2
    /\ currentBuilt = <<"b">>

====
